---- MODULE Spec2Model ----
(***************************************************************************)
(* The incremental text-to-speech relay of src/core/src/app/api/chat/      *)
(* route.ts (lines 146-394): the TransformStream that forwards the model's *)
(* SSE stream to the UI while it decodes the events, cuts the text into    *)
(* sentences, queues them, synthesizes each with ElevenLabs and pipes the  *)
(* audio into one ffplay process; and stopTTS, the abort listener.         *)
(*                                                                         *)
(* Text is a sequence of lexemes (one-character strings, plus the fixed    *)
(* pieces of the protocol such as "data:" or the JSON frame of a           *)
(* text-delta).  A chunk boundary can fall between any two lexemes.        *)
(*                                                                         *)
(* Scheduling is that of the Node.js event loop.  An action is one         *)
(* macrotask (an upstream chunk, the abort event, a fetch response, an     *)
(* audio chunk, the exit of ffplay) together with the promise              *)
(* continuations (microtasks) it makes runnable: an `await` of a promise   *)
(* that is settled, or that the macrotask settles, resumes before the      *)
(* next macrotask.  A worker is therefore observed only where it waits     *)
(* for the network or for the playback process.                            *)
(***************************************************************************)
EXTENDS Integers, Sequences, FiniteSets, TLC

\* ---------------------------------------------------------------- bounds
\* upstream chunks per response
MaxChunks == 2
\* audio chunks per synthesis response
MaxAudio == 2
\* upstream chunks per response in the decoder/segmenter specification
SegMaxChunks == 4
\* WebSocket objects the voice hook creates
MaxSockets == 6
\* calls of connect() by the component and its effect
MaxConnectCalls == 2
\* messages the voice socket delivers to the chat page
MaxVoiceMessages == 3
\* texts submitted to the browser-side speech hook
MaxTexts == 2

\* --------------------------------------------------------------- lexemes
NL == "\n"
SP == " "
COLON == ":"
DATA == "data:"
TDOPEN == "{\"type\":\"text-delta\",\"delta\":\""
TDCLOSE == "\"}"
FINISH == "{\"type\":\"finish\"}"
START == "{\"type\":\"start\"}"
DONE == "[DONE]"
LBRACE == "{"
EMPTYOBJ == "{}"
NUMTYPE == "{\"type\":5}"
\* the two bytes of the UTF-8 encoding of U+00E9, the character they encode,
\* and the replacement character a decoder puts for a malformed sequence
UTF8LEAD == "<C3>"
UTF8CONT == "<A9>"
EACUTE == "<U+00E9>"
REPLACEMENT == "<U+FFFD>"

Terminators == {".", "!", "?"}
Whitespace == {SP, NL}
\* the characters a JSON string literal may hold unescaped, as far as the
\* model's alphabet goes
StringChars ==
    {"a", "b", "d", "e", "l", "o", "r", "u", "w", "y", "H", ".", "!", "?", SP,
     "1", "3", "4", EACUTE, REPLACEMENT, DONE}

\* ------------------------------------------------------ string functions
\* decoder.decode(chunk) of line 308.  The decoder is called without
\* { stream: true }, so each call decodes its chunk on its own: a sequence
\* that the chunk cuts short, and a continuation byte with no lead byte
\* before it, each decode to the replacement character.
RECURSIVE Decode(_)
Decode(bytes) ==
    IF bytes = <<>> THEN <<>>
    ELSE IF Head(bytes) = UTF8LEAD
    THEN IF Len(bytes) >= 2 /\ bytes[2] = UTF8CONT
         THEN <<EACUTE>> \o Decode(SubSeq(bytes, 3, Len(bytes)))
         ELSE <<REPLACEMENT>> \o Decode(Tail(bytes))
    ELSE IF Head(bytes) = UTF8CONT
    THEN <<REPLACEMENT>> \o Decode(Tail(bytes))
    ELSE <<Head(bytes)>> \o Decode(Tail(bytes))

\* String.prototype.trim
RECURSIVE TrimLeft(_)
TrimLeft(s) ==
    IF s # <<>> /\ Head(s) \in Whitespace THEN TrimLeft(Tail(s)) ELSE s

RECURSIVE TrimRight(_)
TrimRight(s) ==
    IF s # <<>> /\ s[Len(s)] \in Whitespace
    THEN TrimRight(SubSeq(s, 1, Len(s) - 1))
    ELSE s

\* a trim of the end only
TrimRightOnly(s) == TrimRight(s)

Trim(s) == TrimRight(TrimLeft(s))

\* String.prototype.startsWith / includes, for one lexeme
StartsWith(s, x) == s # <<>> /\ Head(s) = x
Includes(s, x) == \E i \in 1..Len(s) : s[i] = x

\* sseBuffer.indexOf('\n\n'), 1-based; 0 when absent (JavaScript's -1)
IndexOfSep(s) ==
    LET hits == {i \in 1..(Len(s) - 1) : s[i] = NL /\ s[i + 1] = NL}
    IN  IF hits = {} THEN 0 ELSE CHOOSE i \in hits : \A j \in hits : i <= j

\* eventBlock.split('\n')
RECURSIVE SplitLines(_)
SplitLines(s) ==
    LET nls == {i \in 1..Len(s) : s[i] = NL}
    IN  IF nls = {} THEN <<s>>
        ELSE LET i == CHOOSE k \in nls : \A j \in nls : k <= j
             IN  <<SubSeq(s, 1, i - 1)>> \o SplitLines(SubSeq(s, i + 1, Len(s)))

\* lines.join('\n')
RECURSIVE JoinLines(_)
JoinLines(ls) ==
    IF ls = <<>> THEN <<>>
    ELSE IF Len(ls) = 1 THEN ls[1]
    ELSE ls[1] \o <<NL>> \o JoinLines(Tail(ls))

\* l.replace(/^data:\s?/, '') on a line that starts with "data:"
StripData(l) ==
    LET r == Tail(l)
    IN  IF r # <<>> /\ Head(r) \in Whitespace THEN Tail(r) ELSE r

\* the match without the g flag: the first sentence only
SentencesFirstOnly(s) ==
    LET ts == {i \in 1..Len(s) : s[i] \in Terminators}
    IN  IF ts = {} THEN <<>>
        ELSE <<SubSeq(s, 1, CHOOSE k \in ts : \A j \in ts : k <= j)>>

\* sentenceBuffer.match(/[^.!?]*[.!?]/g): the matches, in order (<<>> for null)
RECURSIVE Sentences(_)
Sentences(s) ==
    LET ts == {i \in 1..Len(s) : s[i] \in Terminators}
    IN  IF ts = {} THEN <<>>
        ELSE LET i == CHOOSE k \in ts : \A j \in ts : k <= j
             IN  <<SubSeq(s, 1, i)>> \o Sentences(SubSeq(s, i + 1, Len(s)))

\* a buffer from which the queued sentences are never removed
RemainderKeepAll(s) == s

\* sentenceBuffer.replace(/[^.!?]*[.!?]/g, ''): what follows the last match
Remainder(s) ==
    LET ts == {i \in 1..Len(s) : s[i] \in Terminators}
    IN  IF ts = {} THEN s
        ELSE LET i == CHOOSE k \in ts : \A j \in ts : k >= j
             IN  SubSeq(s, i + 1, Len(s))

\* JSON.parse(dataPayload) followed by the reads of data.type and data.delta.
\* threw: JSON.parse raised a SyntaxError, or t.startsWith (line 344) raised a
\* TypeError because the type is no string.  type "" stands for a value with
\* no (truthy) type.
JsonParse(payload) ==
    LET p == Trim(payload)
    IN  IF p = <<FINISH>> THEN [threw |-> FALSE, type |-> "finish", delta |-> <<>>]
        ELSE IF p = <<START>> THEN [threw |-> FALSE, type |-> "start", delta |-> <<>>]
        ELSE IF p = <<EMPTYOBJ>> THEN [threw |-> FALSE, type |-> "", delta |-> <<>>]
        ELSE IF p = <<NUMTYPE>> THEN [threw |-> TRUE, type |-> "", delta |-> <<>>]
        ELSE IF /\ Len(p) >= 2
                /\ p[1] = TDOPEN
                /\ p[Len(p)] = TDCLOSE
                /\ \A i \in 2..(Len(p) - 1) : p[i] \in StringChars
        THEN [threw |-> FALSE, type |-> "text-delta", delta |-> SubSeq(p, 2, Len(p) - 1)]
        ELSE [threw |-> TRUE, type |-> "", delta |-> <<>>]


\* ------------------------------------------------------------------ state
VARIABLES
    upstream,            \* the chunks the upstream source has delivered so far
    closed,              \* the upstream source has ended
    aborted,             \* req.signal has fired
    cancelled,           \* the Speak items in synthesis when it fired, each with
                         \* the number of audio chunks it had read
    forwarded,           \* the chunks handed to controller.enqueue
    streamErrored,       \* an exception left transform()
    sseBuffer,
    sentenceBuffer,
    accumulatedText,
    ttsQueue,
    processingQueue,
    ffplayProc,          \* 0 for undefined, else an index of procs
    ffplayClosePromise,  \* 0 for undefined, else the process whose exit it awaits
    procs,               \* every process spawned: its stdin and its status
    workers,             \* every processQueue() call that passed line 262
    stop,                \* the stopTTS() call of the abort listener
    awaiting,            \* pending awaits of a close promise, oldest first
    writes,              \* the stdin.write calls that reached an open stdin
    lateWrites,          \* the stdin.write calls made on an ended stdin
    nextItem,            \* items enqueued so far, plus one
    emitted,             \* every item passed to enqueueTTS / enqueueEnd, in order
    failedItems,         \* the Speak items whose synthesis threw
    voice,               \* the refs and state of useVoiceWebSocket, its sockets
                         \* and its timers
    chat,                \* the chat page: status of useChat, isGeneratingRef,
                         \* the socket messages received and the calls made
    player               \* the refs and state of useElevenLabsStreaming, its
                         \* synthesis requests, audio sources and timers

vars == <<upstream, closed, aborted, cancelled, forwarded, streamErrored, sseBuffer,
          sentenceBuffer, accumulatedText, ttsQueue, processingQueue,
          ffplayProc, ffplayClosePromise, procs, workers, stop, awaiting,
          writes, lateWrites, nextItem, emitted, failedItems, voice, chat,
          player>>

\* The closure of the POST handler as one record, so that the synchronous
\* parts of the handlers compose.
Closure ==
    [forwarded |-> forwarded, streamErrored |-> streamErrored,
     sseBuffer |-> sseBuffer, sentenceBuffer |-> sentenceBuffer,
     accumulatedText |-> accumulatedText, ttsQueue |-> ttsQueue,
     processingQueue |-> processingQueue, ffplayProc |-> ffplayProc,
     ffplayClosePromise |-> ffplayClosePromise, procs |-> procs,
     workers |-> workers, stop |-> stop, awaiting |-> awaiting,
     writes |-> writes, lateWrites |-> lateWrites, nextItem |-> nextItem,
     emitted |-> emitted,
     failedItems |-> failedItems]

Commit(S) ==
    /\ forwarded' = S.forwarded
    /\ streamErrored' = S.streamErrored
    /\ sseBuffer' = S.sseBuffer
    /\ sentenceBuffer' = S.sentenceBuffer
    /\ accumulatedText' = S.accumulatedText
    /\ ttsQueue' = S.ttsQueue
    /\ processingQueue' = S.processingQueue
    /\ ffplayProc' = S.ffplayProc
    /\ ffplayClosePromise' = S.ffplayClosePromise
    /\ procs' = S.procs
    /\ workers' = S.workers
    /\ stop' = S.stop
    /\ awaiting' = S.awaiting
    /\ writes' = S.writes
    /\ lateWrites' = S.lateWrites
    /\ nextItem' = S.nextItem
    /\ emitted' = S.emitted
    /\ failedItems' = S.failedItems
    /\ UNCHANGED <<voice, chat, player>>

\* ------------------------------------------------------- playback process
\* The state of a close promise: pending while the process runs, resolved by
\* 'close', rejected by 'error' (the process could not be started).
PromiseState(S, p) ==
    CASE S.procs[p].status = "running" -> "pending"
      [] S.procs[p].status = "closed" -> "resolved"
      [] S.procs[p].status = "failed" -> "rejected"

\* if (ffplayProc?.stdin && !ffplayProc.stdin.destroyed) ffplayProc.stdin.end()
\* end() marks the stream ended; it is destroyed only later.
EndStdin(S) ==
    IF S.ffplayProc # 0 /\ S.procs[S.ffplayProc].stdin # "destroyed"
    THEN [S EXCEPT !.procs[S.ffplayProc].stdin = "ended"]
    ELSE S

\* ffplayProc = undefined; ffplayClosePromise = undefined
ClearHandle(S) == [S EXCEPT !.ffplayProc = 0, !.ffplayClosePromise = 0]

\* startFfplay().  ok: the player binary could be spawned.  When it could
\* not, the child emits 'error' on the next tick, which rejects the close
\* promise, and its stdin is destroyed.
StartFfplay(S, ok) ==
    IF S.ffplayProc # 0 THEN S
    ELSE [S EXCEPT
            !.procs = Append(@, [stdin |-> IF ok THEN "open" ELSE "destroyed",
                                 status |-> IF ok THEN "running" ELSE "failed"]),
            !.ffplayProc = Len(S.procs) + 1,
            !.ffplayClosePromise = Len(S.procs) + 1]

\* ----------------------------------------------------------------- worker
\* finally { processingQueue = false } and the return of processQueue()
Finally(S, w) ==
    [S EXCEPT !.processingQueue = FALSE, !.workers[w].pc = "done"]

\* The catch block of processQueue (lines 279-287).
Catch(S, w) ==
    LET S1 == EndStdin(S)
    IN  IF S1.ffplayClosePromise # 0
           /\ PromiseState(S1, S1.ffplayClosePromise) = "pending"
        THEN [S1 EXCEPT !.workers[w].pc = "catchwait",
                        !.workers[w].p = S1.ffplayClosePromise,
                        !.awaiting = Append(@, w)]
        ELSE Finally(ClearHandle(S1), w)

\* The while loop of processQueue from its head (line 266), run until the
\* worker waits for the network or for the playback process, or returns.
RECURSIVE RunLoop(_, _)
RunLoop(S, w) ==
    IF S.ttsQueue = <<>> THEN Finally(S, w)
    ELSE
      LET item == Head(S.ttsQueue)
          S1 == [S EXCEPT !.ttsQueue = Tail(@)]
      IN  IF item.type = "text"
          THEN \* streamElevenLabsToFfplay(item.value) up to `await fetch`
               [S1 EXCEPT !.workers[w].pc = "fetch",
                          !.workers[w].item = item.n,
                          !.workers[w].k = 0]
          ELSE
            LET S2 == EndStdin(S1)
            IN  IF S2.ffplayClosePromise = 0 THEN RunLoop(ClearHandle(S2), w)
                ELSE CASE PromiseState(S2, S2.ffplayClosePromise) = "pending" ->
                            [S2 EXCEPT !.workers[w].pc = "endwait",
                                       !.workers[w].item = item.n,
                                       !.workers[w].p = S2.ffplayClosePromise,
                                       !.awaiting = Append(@, w)]
                       [] PromiseState(S2, S2.ffplayClosePromise) = "resolved" ->
                            RunLoop(ClearHandle(S2), w)
                       [] PromiseState(S2, S2.ffplayClosePromise) = "rejected" ->
                            Catch(S2, w)

\* processQueue() up to `await startFfplay()`
ProcessQueue(S, ok) ==
    IF S.processingQueue THEN S
    ELSE StartFfplay(
           [S EXCEPT !.processingQueue = TRUE,
                     !.workers = Append(@, [pc |-> "start", item |-> 0,
                                            k |-> 0, p |-> 0])],
           ok)

EnqueueTTS(S, text, ok) ==
    ProcessQueue(
      [S EXCEPT !.ttsQueue = Append(@, [type |-> "text", value |-> text,
                                        n |-> S.nextItem]),
                !.emitted = Append(@, [type |-> "text", value |-> text,
                                       n |-> S.nextItem]),
                !.nextItem = @ + 1],
      ok)

EnqueueEnd(S, ok) ==
    ProcessQueue(
      [S EXCEPT !.ttsQueue = Append(@, [type |-> "end", value |-> <<>>,
                                        n |-> S.nextItem]),
                !.emitted = Append(@, [type |-> "end", value |-> <<>>,
                                       n |-> S.nextItem]),
                !.nextItem = @ + 1],
      ok)

\* a read loop that collects the audio and writes none of it while it reads
WriteChunkBuffered(S, w) == [S EXCEPT !.workers[w].k = @ + 1]

\* the body of the read loop for one chunk (lines 253-256)
WriteChunk(S, w) ==
    LET p == S.ffplayProc
        rec == [proc |-> p, item |-> S.workers[w].item, k |-> S.workers[w].k + 1]
        S1 == [S EXCEPT !.workers[w].k = @ + 1]
    IN  IF p # 0 /\ S.procs[p].stdin # "destroyed"
        THEN IF S.procs[p].stdin = "open"
             THEN [S1 EXCEPT !.writes = Append(@, rec)]
             ELSE [S1 EXCEPT !.lateWrites = @ \cup {rec}]
        ELSE S1

\* --------------------------------------------------------------- stopTTS
\* a stopTTS that does not await the exit before it clears the handle
StopTTSNoAwait(S) ==
    [ClearHandle(EndStdin([S EXCEPT !.ttsQueue = <<>>, !.processingQueue = FALSE]))
       EXCEPT !.stop = [pc |-> "done", p |-> 0]]

\* a stopTTS that latches the busy flag so that nothing is played afterwards
StopTTSLatchBusy(S) ==
    LET S1 == EndStdin([S EXCEPT !.ttsQueue = <<>>, !.processingQueue = TRUE])
    IN  IF S1.ffplayClosePromise # 0
           /\ PromiseState(S1, S1.ffplayClosePromise) = "pending"
        THEN [S1 EXCEPT !.stop = [pc |-> "wait", p |-> S1.ffplayClosePromise],
                        !.awaiting = Append(@, 0)]
        ELSE [ClearHandle(S1) EXCEPT !.stop = [pc |-> "done", p |-> 0]]

\* stopTTS(reason), up to its await or to its end
StopTTS(S) ==
    LET S1 == EndStdin([S EXCEPT !.ttsQueue = <<>>, !.processingQueue = FALSE])
    IN  IF S1.ffplayClosePromise # 0
           /\ PromiseState(S1, S1.ffplayClosePromise) = "pending"
        THEN [S1 EXCEPT !.stop = [pc |-> "wait", p |-> S1.ffplayClosePromise],
                        !.awaiting = Append(@, 0)]
        ELSE [ClearHandle(S1) EXCEPT !.stop = [pc |-> "done", p |-> 0]]

\* ------------------------------------------------- exit of the process
\* The continuation of one await of the close promise that 'close' resolved.
Resume(S, a) ==
    IF a = 0
    THEN [ClearHandle(S) EXCEPT !.stop = [pc |-> "done", p |-> 0]]
    ELSE IF S.workers[a].pc = "endwait"
    THEN RunLoop(ClearHandle(S), a)
    ELSE Finally(ClearHandle(S), a)

RECURSIVE ResumeAll(_, _)
ResumeAll(S, as) ==
    IF as = <<>> THEN S ELSE ResumeAll(Resume(S, Head(as)), Tail(as))

\* `await p` resumes one tick after p settles, `await p.catch(f)` two ticks
\* after: the End branches resume first, then the catch blocks and stopTTS.
IsDirect(S, a) == a # 0 /\ S.workers[a].pc = "endwait"

OnClose(S, p) ==
    LET S1 == [S EXCEPT !.procs[p] = [stdin |-> "destroyed", status |-> "closed"],
                        !.awaiting = <<>>]
        direct == SelectSeq(S.awaiting, LAMBDA a : IsDirect(S, a))
        caught == SelectSeq(S.awaiting, LAMBDA a : ~IsDirect(S, a))
    IN  ResumeAll(S1, direct \o caught)


\* ------------------------------------------------------------- transform
\* a relay that holds the chunk back while the audio worker is busy
ControllerEnqueueWhenIdle(S, chunk) ==
    IF S.processingQueue THEN S ELSE [S EXCEPT !.forwarded = Append(@, chunk)]

\* controller.enqueue(chunk), line 305
ControllerEnqueue(S, chunk) == [S EXCEPT !.forwarded = Append(@, chunk)]

\* a transform() without the try block: the exception leaves it
Rethrow(S) == [S EXCEPT !.streamErrored = TRUE]

\* catch (e) { } of line 379: the exception is dropped
CatchParseError(S) == S

\* the for loop of lines 358-363
RECURSIVE EnqueueSentences(_, _, _)
EnqueueSentences(S, sentences, ok) ==
    IF sentences = <<>> THEN S
    ELSE EnqueueSentences(
           IF Trim(Head(sentences)) # <<>>
           THEN EnqueueTTS(S, Trim(Head(sentences)), ok)
           ELSE S,
           Tail(sentences), ok)

\* a flush that queues the buffer as it is
FlushUntrimmed(S, ok) ==
    EnqueueEnd(
      IF Trim(S.sentenceBuffer) # <<>>
      THEN [EnqueueTTS(S, S.sentenceBuffer, ok) EXCEPT !.sentenceBuffer = <<>>]
      ELSE S,
      ok)

\* lines 321-327 and 371-377: flush the sentence buffer, then signal the end
Flush(S, ok) ==
    EnqueueEnd(
      IF Trim(S.sentenceBuffer) # <<>>
      THEN [EnqueueTTS(S, Trim(S.sentenceBuffer), ok) EXCEPT !.sentenceBuffer = <<>>]
      ELSE S,
      ok)

\* lines 350-367
TextDelta(S, piece, ok) ==
    LET S1 == [S EXCEPT !.sentenceBuffer = @ \o piece,
                        !.accumulatedText = @ \o piece]
        sentences == Sentences(S1.sentenceBuffer)
    IN  IF sentences # <<>>
        THEN [EnqueueSentences(S1, sentences, ok)
                EXCEPT !.sentenceBuffer = Remainder(S1.sentenceBuffer)]
        ELSE S1

\* the try block of lines 338-378
HandleData(S, dataPayload, ok) ==
    LET data == JsonParse(dataPayload)
    IN  IF data.threw THEN CatchParseError(S)
        ELSE IF data.type = "" THEN S
        ELSE IF data.type = "text-delta" THEN TextDelta(S, data.delta, ok)
        ELSE IF data.type = "finish" THEN Flush(S, ok)
        ELSE S

\* an event block handler that takes only the line `data: [DONE]` for the
\* sentinel
HandleBlockExactSentinel(S, eventBlock, ok) ==
    LET lines == SelectSeq(SplitLines(eventBlock),
                           LAMBDA l : Len(Trim(l)) > 0 /\ ~StartsWith(l, COLON))
        dataLines == SelectSeq(lines, LAMBDA l : StartsWith(l, DATA))
        dataPayloadLines == [i \in 1..Len(dataLines) |-> StripData(dataLines[i])]
    IN  IF \E i \in 1..Len(lines) : lines[i] = <<DATA, SP, DONE>> THEN Flush(S, ok)
        ELSE IF dataPayloadLines = <<>> THEN S
        ELSE HandleData(S, JoinLines(dataPayloadLines), ok)

\* an event block handler that does not drop comment lines
HandleBlockKeepComments(S, eventBlock, ok) ==
    LET lines == SelectSeq(SplitLines(eventBlock), LAMBDA l : Len(Trim(l)) > 0)
        dataLines == SelectSeq(lines, LAMBDA l : StartsWith(l, DATA))
        dataPayloadLines == [i \in 1..Len(dataLines) |-> StripData(dataLines[i])]
    IN  IF \E i \in 1..Len(lines) : Includes(lines[i], DONE) THEN Flush(S, ok)
        ELSE IF dataPayloadLines = <<>> THEN S
        ELSE HandleData(S, JoinLines(dataPayloadLines), ok)

\* one event block, lines 317-381
HandleBlock(S, eventBlock, ok) ==
    LET lines == SelectSeq(SplitLines(eventBlock),
                           LAMBDA l : Len(Trim(l)) > 0 /\ ~StartsWith(l, COLON))
        dataLines == SelectSeq(lines, LAMBDA l : StartsWith(l, DATA))
        dataPayloadLines == [i \in 1..Len(dataLines) |-> StripData(dataLines[i])]
    IN  IF \E i \in 1..Len(lines) : Includes(lines[i], DONE) THEN Flush(S, ok)
        ELSE IF dataPayloadLines = <<>> THEN S
        ELSE HandleData(S, JoinLines(dataPayloadLines), ok)

\* the while loop of lines 313-382; an exception that leaves a block ends it
RECURSIVE EventLoop(_, _)
EventLoop(S, ok) ==
    LET sepIndex == IndexOfSep(S.sseBuffer)
    IN  IF sepIndex = 0 \/ S.streamErrored THEN S
        ELSE EventLoop(
               HandleBlock(
                 [S EXCEPT !.sseBuffer = SubSeq(@, sepIndex + 2, Len(@))],
                 SubSeq(S.sseBuffer, 1, sepIndex - 1), ok),
               ok)

\* The worker that transform() started, if any, resumes from
\* `await startFfplay()` once transform() has returned.
AfterStart(S) ==
    LET started == {w \in 1..Len(S.workers) : S.workers[w].pc = "start"}
    IN  IF started = {} THEN S ELSE RunLoop(S, CHOOSE w \in started : TRUE)

\* transform(chunk, controller), lines 303-383
Transform(S, chunk, ok) ==
    AfterStart(
      EventLoop([ControllerEnqueue(S, chunk)
                   EXCEPT !.sseBuffer = @ \o Decode(chunk)], ok))

\* ------------------------------------------------------------- upstream
Event(payload) == <<DATA, SP>> \o payload \o <<NL, NL>>

ChunkSentence == Event(<<TDOPEN, "a", ".", TDCLOSE>>)
ChunkFragment == Event(<<TDOPEN, "b", TDCLOSE>>)
ChunkFinish == Event(<<FINISH>>)
ChunkDone == Event(<<DONE>>)
ChunkMalformed == Event(<<LBRACE>>)

Chunks == {ChunkSentence, ChunkFragment, ChunkFinish, ChunkDone, ChunkMalformed}

\* ------------------------------------------------------ useVoiceWebSocket
\* the hook after its first render (lines 16-22): no socket, no timer.
\* refPending: the timer reconnectTimeoutRef holds has not fired yet;
\* orphanTimers: pending timers the ref no longer holds; scheduled: the
\* reconnects scheduled since the last open event; disconnected: disconnect()
\* has returned and connect() has not been called since; calls: the calls
\* of connect() from outside the hook's timers.
VoiceHook ==
    [sockets |-> <<>>, wsRef |-> 0, isConnected |-> FALSE,
     connectionStatus |-> "disconnected", reconnectTimeoutRef |-> FALSE,
     refPending |-> FALSE, orphanTimers |-> 0, reconnectAttemptsRef |-> 0,
     scheduled |-> 0, disconnected |-> FALSE, calls |-> 0]

\* -------------------------------------------------------------- chat page
\* the page after its first render (lines 9-20)
ChatPage ==
    [status |-> "ready", isGeneratingRef |-> FALSE, received |-> <<>>,
     calls |-> <<>>]

\* ------------------------------------------------- useElevenLabsStreaming
\* the hook after its first render (lines 25-31).  requests: the calls of
\* streamTextToSpeech, each with the isPlaying its closure captured;
\* sources: the buffer sources started, in the order of their start;
\* timers: pending setTimeout callbacks of line 130; stopped: stopAudio()
\* has returned and no text has been submitted since.
SpeechHook ==
    [isStreaming |-> FALSE, isPlaying |-> FALSE, hasContext |-> FALSE,
     audioQueueRef |-> <<>>, currentStreamRef |-> 0, audioBufferRef |-> <<>>,
     currentSourceRef |-> 0, requests |-> <<>>, sources |-> <<>>,
     timers |-> 0, stopped |-> FALSE]

\* ---------------------------------------------------------------- actions
Init ==
    /\ upstream = <<>>
    /\ closed = FALSE
    /\ aborted = FALSE
    /\ cancelled = {}
    /\ forwarded = <<>>
    /\ streamErrored = FALSE
    /\ sseBuffer = <<>>
    /\ sentenceBuffer = <<>>
    /\ accumulatedText = <<>>
    /\ ttsQueue = <<>>
    /\ processingQueue = FALSE
    /\ ffplayProc = 0
    /\ ffplayClosePromise = 0
    /\ procs = <<>>
    /\ workers = <<>>
    /\ stop = [pc |-> "none", p |-> 0]
    /\ awaiting = <<>>
    /\ writes = <<>>
    /\ lateWrites = {}
    /\ nextItem = 1
    /\ emitted = <<>>
    /\ failedItems = {}
    /\ voice = VoiceHook
    /\ chat = ChatPage
    /\ player = SpeechHook

\* The upstream source delivers a chunk and the stream calls transform().
UpstreamChunk ==
    /\ ~closed
    /\ ~streamErrored
    /\ Len(upstream) < MaxChunks
    /\ \E chunk \in Chunks, ok \in BOOLEAN :
         /\ upstream' = Append(upstream, chunk)
         /\ Commit(Transform(Closure, chunk, ok))
    /\ UNCHANGED <<closed, aborted, cancelled>>

\* The upstream source ends: after the finish event or the [DONE] line, or
\* at any point once the request was aborted.  The stream has no flush().
UpstreamEnd ==
    /\ ~closed
    /\ \/ aborted
       \/ /\ upstream # <<>>
          /\ upstream[Len(upstream)] \in {ChunkFinish, ChunkDone}
    /\ closed' = TRUE
    /\ UNCHANGED <<upstream, aborted, cancelled>>
    /\ Commit(Closure)

\* the workers inside streamElevenLabsToFfplay
InSynthesis ==
    {w \in 1..Len(workers) : workers[w].pc \in {"fetch", "errtext", "read"}}

\* the processQueue() calls that have not returned
ActiveWorkers == {w \in 1..Len(workers) : workers[w].pc # "done"}

\* req.signal fires: the listener of line 191 calls stopTTS.
Abort ==
    /\ ~aborted
    /\ aborted' = TRUE
    /\ cancelled' = {[item |-> workers[w].item, k |-> workers[w].k] : w \in InSynthesis}
    /\ Commit(StopTTS(Closure))
    /\ UNCHANGED <<upstream, closed>>

\* fetch() settles for the worker that awaits it (line 223).
FetchResponse ==
    \E w \in 1..Len(workers), outcome \in {"ok", "status", "reject"} :
      /\ workers[w].pc = "fetch"
      /\ Commit(
           CASE outcome = "ok" -> [Closure EXCEPT !.workers[w].pc = "read"]
             [] outcome = "status" -> [Closure EXCEPT !.workers[w].pc = "errtext"]
             [] outcome = "reject" ->
                  Catch([Closure EXCEPT !.failedItems = @ \cup {workers[w].item}], w))
      /\ UNCHANGED <<upstream, closed, aborted, cancelled>>

\* response.text() settles and line 245 throws.
ErrorText ==
    \E w \in 1..Len(workers) :
      /\ workers[w].pc = "errtext"
      /\ Commit(Catch([Closure EXCEPT !.failedItems = @ \cup {workers[w].item}], w))
      /\ UNCHANGED <<upstream, closed, aborted, cancelled>>

\* reader.read() resolves with an audio chunk (lines 251-256).
ReadChunk ==
    \E w \in 1..Len(workers) :
      /\ workers[w].pc = "read"
      /\ workers[w].k < MaxAudio
      /\ Commit(WriteChunk(Closure, w))
      /\ UNCHANGED <<upstream, closed, aborted, cancelled>>

\* reader.read() resolves with done: the worker goes on with the queue.
ReadDone ==
    \E w \in 1..Len(workers) :
      /\ workers[w].pc = "read"
      /\ Commit(RunLoop(Closure, w))
      /\ UNCHANGED <<upstream, closed, aborted, cancelled>>

\* The stdin of a process is destroyed once its end has been flushed.
StdinDestroyed ==
    \E p \in 1..Len(procs) :
      /\ procs[p].stdin = "ended"
      /\ Commit([Closure EXCEPT !.procs[p].stdin = "destroyed"])
      /\ UNCHANGED <<upstream, closed, aborted, cancelled>>

\* ffplay exits once its input has ended ('close', line 214).
ProcessClose ==
    \E p \in 1..Len(procs) :
      /\ procs[p].status = "running"
      /\ procs[p].stdin \in {"ended", "destroyed"}
      /\ Commit(OnClose(Closure, p))
      /\ UNCHANGED <<upstream, closed, aborted, cancelled>>

Next ==
    \/ UpstreamChunk
    \/ UpstreamEnd
    \/ Abort
    \/ FetchResponse
    \/ ErrorText
    \/ ReadChunk
    \/ ReadDone
    \/ StdinDestroyed
    \/ ProcessClose

Spec == Init /\ [][Next]_vars

\* ------------------------------------------- decoder and segmenter alone
\* The same transform(), fed with a wider choice of events while the audio
\* path stands still (the player starts, the first synthesis call never
\* returns): what it decodes, queues and keeps depends on the chunks alone.
Delta(text) == Event(<<TDOPEN>> \o text \o <<TDCLOSE>>)

ChunkHello1 == Delta(<<"H", "e", "l", "l", "o", SP, "w", "o", "r">>)
ChunkHello2 == Delta(<<"l", "d", ".", SP, "H", "o", "w", SP, "a", "r", "e">>)
ChunkHello3 == Delta(<<SP, "y", "o", "u", "?">>)
ChunkPair == Delta(<<"a", ".", SP, "b", "!">>)
ChunkNoType == Event(<<EMPTYOBJ>>)
ChunkNumType == Event(<<NUMTYPE>>)
ChunkMalformedThenSentence == ChunkMalformed \o ChunkSentence
\* a corrupt payload that happens to contain the sentinel of line 320
ChunkCorruptDone == Event(<<LBRACE, DONE>>)

SegChunks ==
    {ChunkHello1, ChunkHello2, ChunkHello3, ChunkPair, ChunkFinish, ChunkDone,
     ChunkMalformed, ChunkNoType, ChunkNumType, ChunkMalformedThenSentence,
     ChunkCorruptDone}

SegUpstream ==
    /\ Len(upstream) < SegMaxChunks
    /\ \E chunk \in SegChunks :
         /\ upstream' = Append(upstream, chunk)
         /\ Commit(Transform(Closure, chunk, TRUE))
    /\ UNCHANGED <<closed, aborted, cancelled>>

SegNext == SegUpstream

SegSpec == Init /\ [][SegNext]_vars

\* --------------------------------------------------- event blocks alone
\* The same transform(), fed with event blocks of every shape the decoder
\* tells apart: comment lines, the [DONE] sentinel in and outside a JSON
\* payload, text with a terminator inside a number and a blank remainder.
ChunkNumber == Delta(<<"3", ".", "1", "4", "!", SP>>)
ChunkDeltaWithDone == Delta(<<"b", DONE, ".">>)
ChunkCommentDone == <<COLON, SP, DONE, NL, NL>>
ChunkCommentData == <<COLON, DATA, SP, TDOPEN, "a", ".", TDCLOSE, NL, NL>>
ChunkComments == <<COLON, SP, "a", NL, COLON, DONE, NL, NL>>
ChunkCommentThenData == <<COLON, DONE, NL>> \o ChunkSentence

EvChunks ==
    {ChunkSentence, ChunkFragment, ChunkHello2, ChunkNumber, ChunkFinish,
     ChunkDone, ChunkDeltaWithDone, ChunkCommentDone, ChunkCommentData,
     ChunkComments, ChunkCommentThenData}

EvUpstream ==
    /\ Len(upstream) < SegMaxChunks
    /\ \E chunk \in EvChunks :
         /\ upstream' = Append(upstream, chunk)
         /\ Commit(Transform(Closure, chunk, TRUE))
    /\ UNCHANGED <<closed, aborted, cancelled>>

EvNext == EvUpstream

EvSpec == Init /\ [][EvNext]_vars

\* ------------------------------------------- chunk boundaries anywhere
\* The upstream source cuts its byte stream into chunks wherever the
\* transport happens to: each step delivers the next one or more bytes of one
\* of two responses, one of them with a two-byte character in its text.
StreamPlain == ChunkSentence \o ChunkFinish
StreamAccent == Delta(<<UTF8LEAD, UTF8CONT, ".">>) \o ChunkDone
SplitStreams == {StreamPlain, StreamAccent}

RECURSIVE Concat(_)
Concat(chunks) ==
    IF chunks = <<>> THEN <<>> ELSE Head(chunks) \o Concat(Tail(chunks))

SplitUpstream ==
    /\ Len(upstream) < SegMaxChunks
    /\ \E stream \in SplitStreams :
         LET sent == Len(Concat(upstream))
         IN  /\ sent < Len(stream)
             /\ Concat(upstream) = SubSeq(stream, 1, sent)
             /\ \E n \in 1..(Len(stream) - sent) :
                  /\ upstream' = Append(upstream, SubSeq(stream, sent + 1, sent + n))
                  /\ Commit(Transform(Closure, SubSeq(stream, sent + 1, sent + n), TRUE))
    /\ UNCHANGED <<closed, aborted, cancelled>>

SplitNext == SplitUpstream

SplitSpec == Init /\ [][SplitNext]_vars

\* ---------------------------------------------- delta boundaries anywhere
\* The language model cuts its text into deltas wherever it happens to: each
\* step delivers the next zero or more characters of one of two texts as a
\* text-delta event, or the finish event once the text is complete.
TextSpaced == <<"a", ".", SP, "b", "!", SP, "H", "o", "w">>
TextNumber == <<SP, "3", ".", "1", "4", SP, SP, ".", "b">>
DeltaTexts == {TextSpaced, TextNumber}

DeltaCut ==
    /\ Len(upstream) < SegMaxChunks
    /\ \A i \in 1..Len(upstream) : upstream[i] # ChunkFinish
    /\ \E text \in DeltaTexts :
         LET sent == Len(accumulatedText)
         IN  /\ sent < Len(text)
             /\ accumulatedText = SubSeq(text, 1, sent)
             /\ \E n \in 0..(Len(text) - sent) :
                  /\ upstream' = Append(upstream, Delta(SubSeq(text, sent + 1, sent + n)))
                  /\ Commit(Transform(Closure, Delta(SubSeq(text, sent + 1, sent + n)), TRUE))
    /\ UNCHANGED <<closed, aborted, cancelled>>

DeltaFinish ==
    /\ \A i \in 1..Len(upstream) : upstream[i] # ChunkFinish
    /\ accumulatedText \in DeltaTexts
    /\ upstream' = Append(upstream, ChunkFinish)
    /\ Commit(Transform(Closure, ChunkFinish, TRUE))
    /\ UNCHANGED <<closed, aborted, cancelled>>

DeltaNext == DeltaCut \/ DeltaFinish

DeltaSpec == Init /\ [][DeltaNext]_vars

\* the closure of the POST handler at construction (lines 146-165)
Fresh ==
    [forwarded |-> <<>>, streamErrored |-> FALSE, sseBuffer |-> <<>>,
     sentenceBuffer |-> <<>>, accumulatedText |-> <<>>, ttsQueue |-> <<>>,
     processingQueue |-> FALSE, ffplayProc |-> 0, ffplayClosePromise |-> 0,
     procs |-> <<>>, workers |-> <<>>, stop |-> [pc |-> "none", p |-> 0],
     awaiting |-> <<>>, writes |-> <<>>, lateWrites |-> {}, nextItem |-> 1,
     emitted |-> <<>>, failedItems |-> {}]

\* ------------------------------------------- useVoiceWebSocket, actions
maxReconnectAttempts == 5

\* a socket in readyState CONNECTING or OPEN
Live(V) ==
    {s \in 1..Len(V.sockets) : V.sockets[s].state \in {"connecting", "open"}}

\* connect(), lines 24-82
Connect(V) ==
    IF V.wsRef # 0 /\ V.sockets[V.wsRef].state = "open" THEN V
    ELSE [V EXCEPT !.connectionStatus = "connecting",
                   !.sockets = Append(@, [state |-> "connecting", opened |-> FALSE]),
                   !.wsRef = Len(V.sockets) + 1]

\* ws.onopen, lines 35-41
WsOnOpen(V, s) ==
    [V EXCEPT !.sockets[s] = [state |-> "open", opened |-> TRUE],
              !.isConnected = TRUE,
              !.connectionStatus = "connected",
              !.reconnectAttemptsRef = 0,
              !.scheduled = 0]

\* setTimeout of line 67: the ref takes the new timer and lets go of the
\* one it held, which stays pending if it has not fired
SetReconnectTimeout(V) ==
    [V EXCEPT !.orphanTimers = IF V.refPending THEN @ + 1 ELSE @,
              !.reconnectTimeoutRef = TRUE,
              !.refPending = TRUE,
              !.scheduled = @ + 1]

\* an onclose that reconnects whatever the count
WsOnCloseUncounted(V, s, code) ==
    LET V1 == [V EXCEPT !.sockets[s] = [state |-> "closed", opened |-> FALSE],
                        !.isConnected = FALSE,
                        !.connectionStatus = "disconnected",
                        !.wsRef = 0]
    IN  IF code # 1000
        THEN SetReconnectTimeout(
               [V1 EXCEPT !.reconnectAttemptsRef =
                             IF @ < maxReconnectAttempts THEN @ + 1 ELSE @])
        ELSE V1

\* ws.onclose, lines 55-71
WsOnClose(V, s, code) ==
    LET V1 == [V EXCEPT !.sockets[s] = [state |-> "closed", opened |-> FALSE],
                        !.isConnected = FALSE,
                        !.connectionStatus = "disconnected",
                        !.wsRef = 0]
    IN  IF code # 1000 /\ V1.reconnectAttemptsRef < maxReconnectAttempts
        THEN SetReconnectTimeout([V1 EXCEPT !.reconnectAttemptsRef = @ + 1])
        ELSE V1

\* disconnect(), lines 84-98.  close() on a socket that is connecting or
\* open puts it in CLOSING; its close event comes later.
Disconnect(V) ==
    LET V1 == IF V.reconnectTimeoutRef
              THEN [V EXCEPT !.refPending = FALSE, !.reconnectTimeoutRef = FALSE]
              ELSE V
        V2 == IF V1.wsRef # 0
              THEN [V1 EXCEPT !.sockets[V1.wsRef].state =
                                 IF @ \in {"connecting", "open"} THEN "closing" ELSE @,
                              !.wsRef = 0]
              ELSE V1
    IN  [V2 EXCEPT !.isConnected = FALSE,
                   !.connectionStatus = "disconnected",
                   !.reconnectAttemptsRef = 0,
                   !.disconnected = TRUE]

\* The codes a close event of socket s can carry.  A connection that fails,
\* and one that close() cut before it was established, report 1006; an
\* established one reports 1000 when the closing handshake completes and
\* 1006 when the connection is lost first.
CloseCodes(V, s) ==
    IF V.sockets[s].opened THEN {1000, 1006} ELSE {1006}

\* everything but the voice hook
routeVars ==
    <<upstream, closed, aborted, cancelled, forwarded, streamErrored, sseBuffer,
      sentenceBuffer, accumulatedText, ttsQueue, processingQueue,
      ffplayProc, ffplayClosePromise, procs, workers, stop, awaiting,
      writes, lateWrites, nextItem, emitted, failedItems>>

\* the component, or the effect of line 100, calls connect()
VoiceConnect ==
    /\ Len(voice.sockets) < MaxSockets
    /\ voice.calls < MaxConnectCalls
    /\ voice' = [Connect(voice) EXCEPT !.disconnected = FALSE, !.calls = @ + 1]
    /\ UNCHANGED <<routeVars, chat, player>>

\* the component, or the cleanup of line 103, calls disconnect()
VoiceDisconnect ==
    /\ voice' = Disconnect(voice)
    /\ UNCHANGED <<routeVars, chat, player>>

\* the connection of a socket is established
VoiceOpen ==
    \E s \in 1..Len(voice.sockets) :
      /\ voice.sockets[s].state = "connecting"
      /\ voice' = WsOnOpen(voice, s)
      /\ UNCHANGED <<routeVars, chat, player>>

\* a socket reports its close event
VoiceClose ==
    \E s \in 1..Len(voice.sockets) :
      /\ voice.sockets[s].state # "closed"
      /\ \E code \in CloseCodes(voice, s) : voice' = WsOnClose(voice, s, code)
      /\ UNCHANGED <<routeVars, chat, player>>

\* ws.onerror, lines 73-76
VoiceError ==
    \E s \in 1..Len(voice.sockets) :
      /\ voice.sockets[s].state # "closed"
      /\ voice' = [voice EXCEPT !.connectionStatus = "error"]
      /\ UNCHANGED <<routeVars, chat, player>>

\* a reconnect timer fires and calls connect() (lines 67-69)
VoiceTimer ==
    /\ Len(voice.sockets) < MaxSockets
    /\ \/ /\ voice.refPending
          /\ voice' = Connect([voice EXCEPT !.refPending = FALSE])
       \/ /\ voice.orphanTimers > 0
          /\ voice' = Connect([voice EXCEPT !.orphanTimers = @ - 1])
    /\ UNCHANGED <<routeVars, chat, player>>

VoiceNext ==
    \/ VoiceConnect
    \/ VoiceDisconnect
    \/ VoiceOpen
    \/ VoiceClose
    \/ VoiceError
    \/ VoiceTimer

VoiceSpec == Init /\ [][VoiceNext]_vars

\* ---------------------------------------------------- chat page, actions
\* event.data of a socket message: a transcription, one with blank text, one
\* without text, a message of another type, and a payload that is not JSON
MsgSpoken == [json |-> TRUE, type |-> "transcription", text |-> <<"a">>]
MsgPadded == [json |-> TRUE, type |-> "transcription", text |-> <<SP, "b">>]
MsgBlank == [json |-> TRUE, type |-> "transcription", text |-> <<SP>>]
MsgNoText == [json |-> TRUE, type |-> "transcription", text |-> <<>>]
MsgOther == [json |-> TRUE, type |-> "status", text |-> <<"a">>]
MsgMalformed == [json |-> FALSE, type |-> "", text |-> <<>>]
VoiceMessages == {MsgSpoken, MsgPadded, MsgBlank, MsgNoText, MsgOther, MsgMalformed}

\* the render of line 20
Render(P) == [P EXCEPT !.isGeneratingRef = (P.status # "ready")]

\* a handler that sends without interrupting
HandleVoiceMessageNoStop(P, text) ==
    [P EXCEPT !.calls = Append(@, [fn |-> "sendMessage", text |-> text]),
              !.status = "submitted"]

\* handleVoiceMessage, lines 22-31.  stop() and sendMessage() are calls into
\* useChat; sendMessage leaves the chat submitted.
HandleVoiceMessage(P, text) ==
    LET P1 == IF P.isGeneratingRef
              THEN [P EXCEPT !.calls = Append(@, [fn |-> "stop", text |-> <<>>])]
              ELSE P
    IN  [P1 EXCEPT !.calls = Append(@, [fn |-> "sendMessage", text |-> text]),
                   !.status = "submitted"]

\* ws.onmessage, lines 43-53 of useVoiceWebSocket.ts
WsOnMessage(P, msg) ==
    IF msg.json /\ msg.type = "transcription" /\ Trim(msg.text) # <<>>
    THEN HandleVoiceMessage(P, msg.text)
    ELSE P

hookVars == <<routeVars, voice, player>>

\* the voice socket delivers a message; the page renders afterwards
ChatVoiceMessage ==
    /\ Len(chat.received) < MaxVoiceMessages
    /\ \E msg \in VoiceMessages :
         chat' = Render(WsOnMessage([chat EXCEPT !.received = Append(@, msg)], msg))
    /\ UNCHANGED hookVars

\* useChat moves on: the response starts to stream, it completes, or the
\* request fails; the page renders with the new status
ChatProgress ==
    /\ \E next \in {"streaming", "ready", "error"} :
         /\ \/ chat.status = "submitted" /\ next \in {"streaming", "error"}
            \/ chat.status = "streaming" /\ next \in {"ready", "error"}
         /\ chat' = Render([chat EXCEPT !.status = next])
    /\ UNCHANGED hookVars

ChatNext == ChatVoiceMessage \/ ChatProgress

ChatSpec == Init /\ [][ChatNext]_vars

\* ---------------------------------------- useElevenLabsStreaming, actions
\* playNextAudioBuffer, lines 112-134
PlayNextAudioBuffer(H) ==
    IF ~H.hasContext \/ H.audioBufferRef = <<>>
    THEN [H EXCEPT !.isPlaying = FALSE]
    ELSE [H EXCEPT !.isPlaying = TRUE,
                   !.audioBufferRef = Tail(@),
                   !.sources = Append(@, [n |-> Head(H.audioBufferRef),
                                          state |-> "playing"]),
                   !.currentSourceRef = Len(H.sources) + 1]

\* streamTextToSpeech(text) for a text that is not blank, up to its fetch
\* (lines 43-50); initializeAudioContext creates the context on first use
StreamTextToSpeech(H) ==
    [H EXCEPT !.isStreaming = TRUE,
              !.hasContext = TRUE,
              !.requests = Append(@, [pc |-> "fetch", n |-> Len(H.requests) + 1,
                                      isPlaying |-> H.isPlaying])]

\* finally { setIsStreaming(false); currentStreamRef.current = null }
StreamFinally(H, r) ==
    [H EXCEPT !.isStreaming = FALSE,
              !.currentStreamRef = 0,
              !.requests[r].pc = "done"]

\* lines 94-101, once decodeAudioData has resolved
PushAndPlay(H, r) ==
    LET H1 == [H EXCEPT !.audioBufferRef = Append(@, H.requests[r].n)]
    IN  IF ~H.requests[r].isPlaying THEN PlayNextAudioBuffer(H1) ELSE H1

\* source.onended, lines 127-131
OnEnded(H, src) ==
    [H EXCEPT !.sources[src].state = "ended",
              !.currentSourceRef = 0,
              !.timers = @ + 1]

\* stopAudio(), lines 151-170.  stop() ends the source, which reports
\* 'ended' later; cancel() makes the pending read resolve with done.
StopAudio(H) ==
    LET H1 == IF H.currentSourceRef # 0
              THEN [H EXCEPT !.sources[H.currentSourceRef].state =
                                IF @ = "playing" THEN "stopped" ELSE @,
                             !.currentSourceRef = 0]
              ELSE H
    IN  [H1 EXCEPT !.currentStreamRef = 0,
                   !.audioBufferRef = <<>>,
                   !.audioQueueRef = <<>>,
                   !.isStreaming = FALSE,
                   !.isPlaying = FALSE,
                   !.stopped = TRUE]

\* cleanup(), lines 172-178
Cleanup(H) ==
    [StopAudio(H) EXCEPT !.hasContext = FALSE]

pageVars == <<routeVars, voice, chat>>

\* the component calls processTextChunk / streamTextToSpeech with a text
SpeechSubmit ==
    /\ Len(player.requests) < MaxTexts
    /\ player' = [StreamTextToSpeech(player) EXCEPT !.stopped = FALSE]
    /\ UNCHANGED pageVars

\* the component calls addTextToQueue
SpeechAddText ==
    /\ Len(player.audioQueueRef) < MaxTexts
    /\ player' = [player EXCEPT !.audioQueueRef = Append(@, Len(@) + 1),
                                !.stopped = FALSE]
    /\ UNCHANGED pageVars

\* fetch() settles (lines 50-78)
SpeechFetch ==
    \E r \in 1..Len(player.requests), ok \in BOOLEAN :
      /\ player.requests[r].pc = "fetch"
      /\ player' = IF ok
                   THEN [player EXCEPT !.requests[r].pc = "read",
                                       !.currentStreamRef = r]
                   ELSE StreamFinally(player, r)
      /\ UNCHANGED pageVars

\* reader.read() resolves with done, at the end of the body or after
\* cancel(); the chunks go on to be decoded (lines 81-95)
SpeechReadDone ==
    \E r \in 1..Len(player.requests) :
      /\ player.requests[r].pc = "read"
      /\ player' = [player EXCEPT !.requests[r].pc = "decode"]
      /\ UNCHANGED pageVars

\* decodeAudioData settles (lines 95-109)
SpeechDecoded ==
    \E r \in 1..Len(player.requests), ok \in BOOLEAN :
      /\ player.requests[r].pc = "decode"
      /\ player' = IF ok /\ player.hasContext
                   THEN StreamFinally(PushAndPlay(player, r), r)
                   ELSE StreamFinally(player, r)
      /\ UNCHANGED pageVars

\* a source reports 'ended', at the end of its buffer or after stop()
SpeechEnded ==
    \E src \in 1..Len(player.sources) :
      /\ player.sources[src].state \in {"playing", "stopped"}
      /\ player' = OnEnded(player, src)
      /\ UNCHANGED pageVars

\* the timer of line 130 fires
SpeechTimer ==
    /\ player.timers > 0
    /\ player' = PlayNextAudioBuffer([player EXCEPT !.timers = @ - 1])
    /\ UNCHANGED pageVars

\* the component calls stopAudio()
SpeechStop ==
    /\ player' = StopAudio(player)
    /\ UNCHANGED pageVars

\* the component calls cleanup(), lines 172-178
SpeechCleanup ==
    /\ player' = Cleanup(player)
    /\ UNCHANGED pageVars

SpeechNext ==
    \/ SpeechSubmit
    \/ SpeechAddText
    \/ SpeechFetch
    \/ SpeechReadDone
    \/ SpeechDecoded
    \/ SpeechEnded
    \/ SpeechTimer
    \/ SpeechStop
    \/ SpeechCleanup

SpeechSpec == Init /\ [][SpeechNext]_vars

\* ----------------------------------------------------------------- claims
Running == {p \in 1..Len(procs) : procs[p].status = "running"}

\* C1: the chunks delivered to the consumer are exactly the upstream chunks,
\* in order, whatever the audio path does.
C1_PassThrough == forwarded = upstream

C1_Witness ==
    /\ Len(forwarded) = MaxChunks
    /\ aborted
    /\ failedItems # {}
    /\ writes # <<>>

\* C2: no error of the audio path leaves transform() or errors the stream:
\* after a malformed event, a failed synthesis, a failed start of the player
\* and a stop, every chunk has still been forwarded.
C2_ErrorsConfined == ~streamErrored /\ Len(forwarded) = Len(upstream)

C2_Witness ==
    /\ Len(upstream) = MaxChunks
    /\ upstream[1] = ChunkMalformed
    /\ failedItems # {}
    /\ \E p \in 1..Len(procs) : procs[p].status = "failed"
    /\ stop.pc = "done"

\* C3: audio reaches the sink in the order of the Speak items: a chunk of an
\* earlier item is never written after a chunk of a later one.
C3_WritesInItemOrder ==
    \A i, j \in 1..Len(writes) : i < j => writes[i].item <= writes[j].item

\* C4: a failed synthesis does not abort the queue: while items wait behind a
\* failed one, a worker is still there to take them.
C4_QueueSurvivesFailure ==
    (failedItems # {} /\ ~aborted /\ ttsQueue # <<>>) => ActiveWorkers # {}

\* C5: once the signal has fired during a synthesis, no audio chunk is
\* written to any playback process, and the step that handles the signal
\* leaves no process with its input open.
C5_NoWriteAfterCancel ==
    /\ [][cancelled # {} => writes' = writes]_vars
    /\ [][(~aborted /\ aborted') =>
            \A p \in 1..Len(procs') : procs'[p].stdin # "open"]_vars

\* C6: at most one processQueue worker is active at any time.
C6_AtMostOneWorker == Cardinality(ActiveWorkers) <= 1

\* C7: every playback process that is alive is the one the handle refers to,
\* so at most one is alive: the handle is cleared only once the process it
\* referred to has exited or failed to start.
C7_OneLiveProcess == \A p \in Running : ffplayProc = p

C7_Witness ==
    /\ Len(procs) = 2
    /\ procs[1].status = "closed"
    /\ procs[2].status = "running"
    /\ aborted

\* C8: at most one playback process is spawned per response.
C8_AtMostOneSpawn == Len(procs) <= 1

\* C9: while a worker processes End it holds the process whose input it
\* closed, and no Speak item enqueued before that End is still in synthesis.
C9_EndAfterSpeak ==
    \A w \in 1..Len(workers) :
      workers[w].pc = "endwait" =>
        /\ ffplayProc = workers[w].p
        /\ procs[workers[w].p].stdin # "open"
        /\ \A v \in InSynthesis : workers[v].item > workers[w].item

\* C10: when the response is over (the upstream has ended, no worker is
\* active, stopTTS is not waiting) no process is left with its input open.
Quiescent == closed /\ ActiveWorkers = {} /\ stop.pc # "wait"

C10_ReleasedAtEnd ==
    Quiescent => \A p \in 1..Len(procs) : procs[p].stdin # "open"


\* the contents of the text units emitted so far, in order
Units == LET t == SelectSeq(emitted, LAMBDA e : e.type = "text")
         IN  [i \in 1..Len(t) |-> t[i].value]

RECURSIVE Flatten(_)
Flatten(ss) == IF ss = <<>> THEN <<>> ELSE Head(ss) \o Flatten(Tail(ss))

NonWs(s) == SelectSeq(s, LAMBDA c : c \notin Whitespace)

IsPrefix(s, t) == Len(s) <= Len(t) /\ SubSeq(t, 1, Len(s)) = s

\* text is the units in order and then buf, with nothing but whitespace
\* added in front of a unit, behind a unit or in front of buf
RECURSIVE MatchUnits(_, _, _)
MatchUnits(us, buf, text) ==
    IF us = <<>>
    THEN \E i \in 0..Len(text) :
           /\ SubSeq(text, i + 1, Len(text)) = buf
           /\ \A j \in 1..i : text[j] \in Whitespace
    ELSE LET t == TrimLeft(text)
             u == Head(us)
         IN  /\ IsPrefix(u, t)
             /\ MatchUnits(Tail(us), buf, SubSeq(t, Len(u) + 1, Len(t)))

\* the last event delivered was finish or [DONE]
Flushed ==
    upstream # <<>> /\ upstream[Len(upstream)] \in {ChunkFinish, ChunkDone}

\* C11 as stated: the emitted units, concatenated, followed by the sentence
\* buffer, are the transcript.
C11_ConcatIsTranscript == Flatten(Units) \o sentenceBuffer = accumulatedText

\* C11 as amended: the emitted units in order, followed by the sentence
\* buffer, are the transcript except for whitespace that trimming removed at
\* the start or the end of a unit; no other character is lost or duplicated.
C11_ConcatIsTranscriptButTrim == MatchUnits(Units, sentenceBuffer, accumulatedText)

C11_Witness ==
    /\ Len(Units) >= 2
    /\ sentenceBuffer # <<>>
    /\ Flatten(Units) \o sentenceBuffer # accumulatedText

\* C12: the non-whitespace characters of the emitted units, in emission
\* order, are always a prefix of those of the transcript, and all of them
\* once a finish or [DONE] event has flushed the buffer: each is emitted in
\* exactly one unit, in the original order.
C12_NonWhitespaceEmittedOnce ==
    /\ IsPrefix(NonWs(Flatten(Units)), NonWs(accumulatedText))
    /\ Flushed => NonWs(Flatten(Units)) = NonWs(accumulatedText)

C12_Witness ==
    /\ Flushed
    /\ Len(Units) >= 3
    /\ Flatten(Units) # accumulatedText

\* C13 as stated: "Hello wor", "ld. How are", " you?" and finish emit
\* "Hello world." and then, on the finish event, "How are you?", and nothing
\* else.
HelloWorld == <<"H", "e", "l", "l", "o", SP, "w", "o", "r", "l", "d", ".">>
HowAreYou == <<"H", "o", "w", SP, "a", "r", "e", SP, "y", "o", "u", "?">>

C13_SecondUnitOnFinish ==
    /\ upstream = <<ChunkHello1>> => emitted = <<>>
    /\ upstream = <<ChunkHello1, ChunkHello2>> => Units = <<HelloWorld>>
    /\ upstream = <<ChunkHello1, ChunkHello2, ChunkHello3>> =>
         /\ Units = <<HelloWorld>>
         /\ Len(emitted) = 1
    /\ upstream = <<ChunkHello1, ChunkHello2, ChunkHello3, ChunkFinish>> =>
         /\ Units = <<HelloWorld, HowAreYou>>
         /\ Len(emitted) = 3
         /\ emitted[3].type = "end"

\* C13 as amended: the deltas emit "Hello world." on the second delta and
\* "How are you?" on the third, which ends with '?'; the finish event finds
\* the buffer empty and emits only the End item; no other unit is emitted.
C13_SecondUnitOnThirdDelta ==
    /\ upstream = <<ChunkHello1>> => emitted = <<>>
    /\ upstream = <<ChunkHello1, ChunkHello2>> => Units = <<HelloWorld>>
    /\ upstream = <<ChunkHello1, ChunkHello2, ChunkHello3>> =>
         /\ Units = <<HelloWorld, HowAreYou>>
         /\ Len(emitted) = 2
         /\ sentenceBuffer = <<>>
    /\ upstream = <<ChunkHello1, ChunkHello2, ChunkHello3, ChunkFinish>> =>
         /\ Units = <<HelloWorld, HowAreYou>>
         /\ Len(emitted) = 3
         /\ emitted[3].type = "end"

C13_Witness ==
    /\ upstream = <<ChunkHello1, ChunkHello2, ChunkHello3, ChunkFinish>>
    /\ Len(emitted) = 3


\* C14: a second End item, enqueued after the first was processed and the
\* worker went idle, and a stop while no playback process exists and no
\* worker is active, are no-ops: no process is spawned and the queue, the
\* busy flag and the process handle are as before.
FirstEndProcessed ==
    /\ \E i \in 1..Len(emitted) : emitted[i].type = "end"
    /\ ~aborted
    /\ ttsQueue = <<>>
    /\ ActiveWorkers = {}
    /\ ffplayProc = 0

OnlyEndEnqueued ==
    /\ Len(emitted') = Len(emitted) + 1
    /\ emitted'[Len(emitted')].type = "end"

SinkUntouched ==
    /\ procs' = procs
    /\ ffplayProc' = ffplayProc
    /\ processingQueue' = processingQueue
    /\ ttsQueue' = ttsQueue

C14_SecondEndAndIdleStopAreNoOps ==
    /\ [][(FirstEndProcessed /\ OnlyEndEnqueued) => SinkUntouched]_vars
    /\ [][(~aborted /\ aborted' /\ ffplayProc = 0 /\ ActiveWorkers = {})
            => SinkUntouched]_vars

\* C15: a synthesis that was in flight when the signal fired reads at most
\* one more audio chunk afterwards.
C15_ReadLoopStopsOnCancel ==
    \A c \in cancelled : \A w \in 1..Len(workers) :
      workers[w].item = c.item => workers[w].k <= c.k + 1

\* C16: the step that handles the signal empties the queue, and once
\* stopTTS has returned no worker is active and the handle is cleared.
C16_IdleAfterCancel ==
    /\ [][(~aborted /\ aborted') => ttsQueue' = <<>>]_vars
    /\ [][(stop.pc # "done" /\ stop'.pc = "done") =>
            (ActiveWorkers' = {} /\ ffplayProc' = 0 /\ ttsQueue' = <<>>)]_vars

\* C17: once a playback process has failed to start, no further synthesis
\* call is made, no further process is spawned and nothing more is written.
Failed == {p \in 1..Len(procs) : procs[p].status = "failed"}

C17_StartFailureIsFatal ==
    [][Failed # {} =>
         /\ Len(procs') = Len(procs)
         /\ writes' = writes
         /\ \A w \in 1..Len(workers') :
              workers'[w].pc = "fetch" =>
                /\ w <= Len(workers)
                /\ workers[w].pc = "fetch"
                /\ workers[w].item = workers'[w].item]_vars

\* The data payloads of the one-event chunks of the segmenter runs, and those
\* that JSON.parse rejects or that parse to a value without a string type.
SegPayloads ==
    {<<LBRACE>>, <<EMPTYOBJ>>, <<NUMTYPE>>, <<DONE>>, <<LBRACE, DONE>>,
     <<FINISH>>, <<TDOPEN, "a", ".", TDCLOSE>>}

NotAnEvent(payload) ==
    JsonParse(payload).threw \/ JsonParse(payload).type = ""

Discarded ==
    /\ sentenceBuffer' = sentenceBuffer
    /\ accumulatedText' = accumulatedText
    /\ ttsQueue' = ttsQueue
    /\ emitted' = emitted

\* the events around a discarded one are decoded and handled: a sentence
\* arriving in a chunk, alone or behind a corrupt event, reaches the
\* transcript and is queued as one unit
LaterEventsHandled ==
    \A chunk \in {ChunkSentence, ChunkMalformedThenSentence} :
       upstream' = Append(upstream, chunk) =>
         /\ accumulatedText' = accumulatedText \o <<"a", ".">>
         /\ Len(emitted') = Len(emitted) + 1
         /\ emitted'[Len(emitted')].type = "text"
         /\ emitted'[Len(emitted')].value = Trim(sentenceBuffer \o <<"a", ".">>)
         /\ sentenceBuffer' = <<>>

\* C18 as stated: every event whose payload is not valid JSON, or is JSON
\* without a string type, leaves sentence buffer, transcript and queue
\* unchanged, and later events are still handled.
C18_InvalidPayloadDiscarded ==
    [][/\ \A payload \in SegPayloads :
            (NotAnEvent(payload) /\ upstream' = Append(upstream, Event(payload)))
               => Discarded
       /\ LaterEventsHandled]_vars

\* C18, amended: as above for every such payload that does not contain the
\* [DONE] sentinel; an event block containing [DONE] is never parsed, it
\* flushes the buffer and queues End.
C18_InvalidPayloadDiscardedUnlessDone ==
    [][/\ \A payload \in SegPayloads :
            (/\ NotAnEvent(payload)
             /\ ~Includes(payload, DONE)
             /\ upstream' = Append(upstream, Event(payload)))
               => Discarded
       /\ \A payload \in SegPayloads :
            (Includes(payload, DONE) /\ upstream' = Append(upstream, Event(payload)))
               => /\ Len(emitted') > Len(emitted)
                  /\ emitted'[Len(emitted')].type = "end"
                  /\ sentenceBuffer' = IF Trim(sentenceBuffer) # <<>>
                                       THEN <<>> ELSE sentenceBuffer
                  /\ accumulatedText' = accumulatedText
       /\ LaterEventsHandled]_vars

\* a corrupt event, one without a type and one with a numeric type have been
\* discarded with text pending, and sentences behind them have been queued
C18_Witness ==
    /\ Len(upstream) = 4
    /\ upstream[1] = ChunkHello1
    /\ upstream[2] \in {ChunkMalformed, ChunkNoType, ChunkNumType}
    /\ upstream[3] = ChunkMalformedThenSentence
    /\ upstream[4] = ChunkHello2
    /\ sentenceBuffer # <<>>
    /\ Len(Units) = 2

\* C19: write() is never called on a stdin that has been ended.
C19_NoWriteOnEndedInput == lateWrites = {}

\* C20: whenever no worker is active the queue is empty.
C20_IdleOnlyWhenEmpty == ActiveWorkers = {} => ttsQueue = <<>>

\* C21: at most one item of the response is inside its synthesis call or
\* its read loop; the next one is dequeued only when that one has left it.
C21_OneItemAtATime == Cardinality(InSynthesis) <= 1

\* C22: a step that spawns a playback process is one whose worker goes on
\* to synthesize a Speak item; a run over End items only spawns nothing.
C22_SpawnOnlyForSpeak ==
    [][Len(procs') > Len(procs) =>
         workers'[Len(workers')].pc = "fetch"]_vars

\* the items enqueued by the step, and the queue as it would be with them
NewItems == SubSeq(emitted', Len(emitted) + 1, Len(emitted'))

Enqueued ==
    /\ SubSeq(emitted', 1, Len(emitted)) = emitted
    /\ \/ ttsQueue' = ttsQueue \o NewItems
       \/ /\ ttsQueue \o NewItems # <<>>
          /\ ttsQueue' = Tail(ttsQueue \o NewItems)

\* what a flush does to buffer and queue
FlushEffect ==
    /\ Enqueued
    /\ IF Trim(sentenceBuffer) # <<>>
       THEN /\ Len(NewItems) = 2
            /\ NewItems[1].type = "text"
            /\ NewItems[1].value = Trim(sentenceBuffer)
            /\ NewItems[2].type = "end"
            /\ sentenceBuffer' = <<>>
       ELSE /\ Len(NewItems) = 1
            /\ NewItems[1].type = "end"
            /\ sentenceBuffer' = sentenceBuffer

\* C23: a finish event and a [DONE] line each enqueue the trimmed buffer as
\* one Speak item, if it is not blank, clear the buffer, and enqueue one End
\* item directly behind; a blank buffer yields the End item alone.
C23_FlushThenEnd ==
    [][(\E chunk \in {ChunkFinish, ChunkDone} : upstream' = Append(upstream, chunk))
         => FlushEffect]_vars

\* a finish has flushed " How are", and a later [DONE] found the buffer blank
C23_Witness ==
    /\ Len(upstream) = 4
    /\ upstream[1] = ChunkHello2
    /\ upstream[2] = ChunkFinish
    /\ upstream[3] = ChunkNumber
    /\ upstream[4] = ChunkDone
    /\ sentenceBuffer = <<SP>>
    /\ Len(emitted) = 6

\* the part of a text behind its last terminator
AfterLastTerminator(s) ==
    LET at == {i \in 1..Len(s) : s[i] \in Terminators}
    IN  IF at = {} THEN s
        ELSE SubSeq(s, (CHOOSE i \in at : \A j \in at : j <= i) + 1, Len(s))

\* the texts of the text-delta events of EvChunks
EvDeltas ==
    {<<"a", ".">>, <<"b">>, <<"3", ".", "1", "4", "!", SP>>,
     <<"l", "d", ".", SP, "H", "o", "w", SP, "a", "r", "e">>}

\* no finish event and no [DONE] line has been handled yet
NoFlushYet ==
    \A i \in 1..Len(emitted) : emitted[i].type # "end"

C26_SentinelWins ==
    [][(\E chunk \in {ChunkDone, ChunkDeltaWithDone} :
          upstream' = Append(upstream, chunk))
         => (FlushEffect /\ accumulatedText' = accumulatedText)]_vars

\* the text-delta "b[DONE]." has flushed " How are" and queued End, and its
\* own text has reached neither transcript nor buffer
C26_Witness ==
    /\ upstream = <<ChunkHello2, ChunkDeltaWithDone>>
    /\ Units = << <<"l", "d", ".">>, <<"H", "o", "w", SP, "a", "r", "e">> >>
    /\ emitted[Len(emitted)].type = "end"
    /\ sentenceBuffer = <<>>
    /\ ~Includes(accumulatedText, DONE)

\* C27: an event block of comment lines only changes neither sentence
\* buffer nor transcript nor queue, whatever the comments hold; a comment
\* line in front of a data line does not change how the data line is handled.
C27_CommentsIgnored ==
    [][/\ (\E chunk \in {ChunkCommentDone, ChunkCommentData, ChunkComments} :
             upstream' = Append(upstream, chunk)) => Discarded
       /\ upstream' = Append(upstream, ChunkCommentThenData) =>
            /\ accumulatedText' = accumulatedText \o <<"a", ".">>
            /\ sentenceBuffer' = <<>>
            /\ Enqueued
            /\ Len(NewItems) = 1
            /\ NewItems[1].type = "text"
            /\ NewItems[1].value = Trim(sentenceBuffer \o <<"a", ".">>)]_vars

\* comment blocks holding the sentinel and a data payload have gone by with
\* text pending, which the next sentence then closed
C27_Witness ==
    /\ upstream = <<ChunkFragment, ChunkCommentDone, ChunkCommentData,
                    ChunkCommentThenData>>
    /\ Units = << <<"b", "a", ".">> >>
    /\ Len(emitted) = 1
    /\ accumulatedText = <<"b", "a", ".">>

\* type and content of the items of a sequence of queue items
Items(e) == [i \in 1..Len(e) |-> [type |-> e[i].type, value |-> e[i].value]]

\* the handler's state had the bytes delivered so far come as one chunk
Unsplit == Transform(Fresh, Concat(upstream), TRUE)

\* C25: however the byte stream is cut into chunks, the text decoded and the
\* Speak and End items enqueued are those of the stream delivered uncut.
C25_SplitIndependent ==
    /\ accumulatedText = Unsplit.accumulatedText
    /\ Items(emitted) = Items(Unsplit.emitted)

\* the contents of the text units among a sequence of queue items
UnitsOf(e) == LET t == SelectSeq(e, LAMBDA x : x.type = "text")
              IN  [i \in 1..Len(t) |-> t[i].value]

\* the handler's state had the text received so far come as one delta
Uncut == Transform(Fresh, Delta(accumulatedText), TRUE)

\* C30: the units enqueued, and the text left in the buffer, are those of
\* the same text received as one delta; after finish, the units are those
\* of the one delta followed by finish.
C30_CutIndependent ==
    IF upstream # <<>> /\ upstream[Len(upstream)] = ChunkFinish
    THEN Units = UnitsOf(Transform(Uncut, ChunkFinish, TRUE).emitted)
    ELSE /\ Units = UnitsOf(Uncut.emitted)
         /\ sentenceBuffer = Uncut.sentenceBuffer

\* "a. b! How" has come cut before a terminator and inside a word, and
\* finish has flushed the last word
C30_Witness ==
    /\ upstream = <<Delta(<<"a">>), Delta(<<".", SP, "b", "!", SP, "H">>),
                    Delta(<<"o", "w">>), ChunkFinish>>
    /\ Units = << <<"a", ".">>, <<"b", "!">>, <<"H", "o", "w">> >>

\* C28: an audio chunk that is read while the sink takes input is written in
\* the step that reads it, before the next read of that response is issued,
\* and the writes of one unit are in the order of its chunks; a chunk read
\* while there is no sink, or a closed one, is not written.
C28_WrittenBeforeNextRead ==
    /\ [][\A w \in 1..Len(workers) :
            (workers[w].pc = "read" /\ workers'[w].k = workers[w].k + 1) =>
              IF ffplayProc # 0 /\ procs[ffplayProc].stdin = "open"
              THEN writes' = Append(writes, [proc |-> ffplayProc,
                                             item |-> workers[w].item,
                                             k |-> workers[w].k + 1])
              ELSE writes' = writes]_vars
    /\ [](\A i, j \in 1..Len(writes) :
            (i < j /\ writes[i].item = writes[j].item) => writes[i].k < writes[j].k)

\* both chunks of a unit are written while its response is still being read
C28_Witness ==
    /\ Len(writes) = 2
    /\ writes[1].item = writes[2].item
    /\ writes[1].k = 1
    /\ writes[2].k = 2
    /\ \E w \in 1..Len(workers) :
         workers[w].pc = "read" /\ workers[w].item = writes[1].item

\* the response has completed on its own: End was processed, every process
\* has exited, the handle is cleared, no worker is active, nothing failed
NaturallyCompleted ==
    /\ \E i \in 1..Len(emitted) : emitted[i].type = "end"
    /\ procs # <<>>
    /\ \A p \in 1..Len(procs) : procs[p].status = "closed"
    /\ failedItems = {}
    /\ ffplayProc = 0
    /\ ffplayClosePromise = 0
    /\ ActiveWorkers = {}

\* C29: a cancellation that arrives after the response has completed on its
\* own changes neither queue nor busy flag nor handle, spawns nothing, and
\* stopTTS returns at once.
C29_LateCancelIgnored ==
    [][(~aborted /\ aborted' /\ NaturallyCompleted) =>
         /\ SinkUntouched
         /\ ffplayClosePromise' = ffplayClosePromise
         /\ workers' = workers
         /\ writes' = writes
         /\ lateWrites' = lateWrites
         /\ stop'.pc = "done"
         /\ ~streamErrored']_vars

\* a sentence was played in full, finish closed the process, and then the
\* request was aborted
C29_Witness ==
    /\ aborted
    /\ stop.pc = "done"
    /\ cancelled = {}
    /\ NaturallyCompleted
    /\ Len(writes) = MaxAudio
    /\ lateWrites = {}
    /\ Len(procs) = 1
    /\ ttsQueue = <<>>

\* the step schedules a reconnect (setTimeout of line 67)
ReconnectScheduled ==
    \/ voice'.orphanTimers > voice.orphanTimers
    \/ voice'.refPending /\ ~voice.refPending

\* the step is the open event of a socket
SocketOpened ==
    \E s \in 1..Len(voice.sockets) :
      voice.sockets[s].state = "connecting" /\ voice'.sockets[s].state = "open"

CounterRules ==
    /\ [](voice.reconnectAttemptsRef \in 0..maxReconnectAttempts)
    /\ [][ReconnectScheduled =>
            /\ voice.reconnectAttemptsRef < maxReconnectAttempts
            /\ voice'.reconnectAttemptsRef = voice.reconnectAttemptsRef + 1
            /\ \E s \in 1..Len(voice.sockets) :
                 voice.sockets[s].state # "closed" /\ voice'.sockets[s].state = "closed"]_vars
    /\ [][SocketOpened => voice'.reconnectAttemptsRef = 0]_vars
    /\ [][voice.reconnectAttemptsRef = maxReconnectAttempts => ~ReconnectScheduled]_vars

\* C31 as stated: the counter stays within 0..5, an open resets it, a
\* reconnect is scheduled only below 5, and no more than 5 reconnects are
\* scheduled since the last successful open.
C31_FiveReconnectsPerOpen ==
    /\ CounterRules
    /\ [](voice.scheduled <= maxReconnectAttempts)

\* C31, amended: the counter stays within 0..5; a reconnect is scheduled only
\* by a close event, only while the counter is below 5, and it adds one; an
\* open event resets the counter, and so does disconnect(); at 5 no
\* reconnect is scheduled.
C31_CounterWithinFive ==
    /\ CounterRules
    /\ [][(voice'.disconnected /\ ~voice.disconnected) =>
            voice'.reconnectAttemptsRef = 0]_vars

\* five reconnects have failed, and the close of the sixth socket has
\* scheduled nothing
C31_Witness ==
    /\ voice.reconnectAttemptsRef = maxReconnectAttempts
    /\ Len(voice.sockets) = 6
    /\ \A s \in 1..Len(voice.sockets) : voice.sockets[s].state = "closed"
    /\ ~voice.refPending
    /\ voice.orphanTimers = 0
    /\ voice.scheduled = maxReconnectAttempts

\* C32: once disconnect() has returned, and until connect() is called
\* again, no reconnect timer is pending and no WebSocket is created.
C32_NoReconnectAfterDisconnect ==
    /\ [](voice.disconnected => (~voice.refPending /\ voice.orphanTimers = 0))
    /\ [][(voice.disconnected /\ voice'.disconnected) =>
            Len(voice'.sockets) = Len(voice.sockets)]_vars

\* C33: at most one socket of the hook is connecting or open, wsRef refers
\* to it, isConnected holds only while it is open, and the close event of
\* another socket leaves wsRef and isConnected as they are.
C33_OneTrackedSocket ==
    /\ [](Cardinality(Live(voice)) <= 1)
    /\ [](\A s \in Live(voice) : voice.wsRef = s)
    /\ [](voice.isConnected =>
            (voice.wsRef # 0 /\ voice.sockets[voice.wsRef].state = "open"))
    /\ [][\A s \in 1..Len(voice.sockets) :
            (/\ voice.sockets[s].state # "closed"
             /\ voice'.sockets[s].state = "closed"
             /\ voice.wsRef \notin {0, s})
              => (voice'.wsRef = voice.wsRef /\ voice'.isConnected = voice.isConnected)]_vars

\* the message the step received and the calls it made
Heard(msg) == chat'.received = Append(chat.received, msg)

NewCalls == SubSeq(chat'.calls, Len(chat.calls) + 1, Len(chat'.calls))

StopThenSend(text) ==
    NewCalls = IF chat.status # "ready"
               THEN <<[fn |-> "stop", text |-> <<>>],
                      [fn |-> "sendMessage", text |-> text]>>
               ELSE <<[fn |-> "sendMessage", text |-> text]>>

\* C34 as stated: every transcription makes exactly one sendMessage, with a
\* stop() before it exactly when the status is not 'ready'.
C34_OneSendPerTranscription ==
    [][\A msg \in VoiceMessages :
         (Heard(msg) /\ msg.json /\ msg.type = "transcription")
            => StopThenSend(msg.text)]_vars

\* C34, amended: so does every transcription whose text is not blank; a
\* transcription with blank or no text, a message of another type and a
\* payload that is not JSON make no call.
C34_OneSendPerSpokenText ==
    [][\A msg \in VoiceMessages :
         Heard(msg) =>
           IF msg.json /\ msg.type = "transcription" /\ Trim(msg.text) # <<>>
           THEN StopThenSend(msg.text)
           ELSE NewCalls = <<>>]_vars

\* a transcription sent while ready, a blank one dropped, and one that
\* interrupted the response to the first
C34_Witness ==
    /\ chat.received = <<MsgSpoken, MsgBlank, MsgPadded>>
    /\ chat.calls = <<[fn |-> "sendMessage", text |-> <<"a">>],
                      [fn |-> "stop", text |-> <<>>],
                      [fn |-> "sendMessage", text |-> <<SP, "b">>]>>

\* the sources that are playing: started, neither ended nor stopped
Playing == {i \in 1..Len(player.sources) : player.sources[i].state = "playing"}

\* C35: audio is played in the order the texts were submitted: of two
\* sources, the one started first plays the text submitted first, whatever
\* the order in which the synthesis requests completed.
C35_PlayedInSubmissionOrder ==
    \A i, j \in 1..Len(player.sources) :
        i < j => player.sources[i].n < player.sources[j].n

\* C36: at most one audio buffer source is playing at any time.
C36_OneSourcePlaying ==
    Cardinality(Playing) <= 1

\* C37: after stopAudio() the buffer list and the text queue are empty and
\* stay empty, and no source is started, until a new text is submitted.
C37_SilentAfterStop ==
    [][/\ player'.stopped =>
            /\ player'.audioBufferRef = <<>>
            /\ player'.audioQueueRef = <<>>
       /\ player.stopped /\ player'.stopped =>
            Len(player'.sources) = Len(player.sources)]_vars

====
